---- MODULE Spec2Model ----
(***************************************************************************)
(* A model of lensix's search.py (Circle to Search for Linux): main() and  *)
(* the screen capture chain, the EnhancedOverlay event handlers, and       *)
(* OCRProcessor.  One session is one run of main().                        *)
(*                                                                         *)
(* Three specifications share the variables:                               *)
(*   SpecCapture  main() from process start to overlay.show() or exit      *)
(*   Spec         the overlay's event loop, from overlay.show() to quit    *)
(*   SpecOCR      one call of OCRProcessor.extract_text_multi_strategy,    *)
(*                candidate by candidate                                   *)
(*                                                                         *)
(* Pointer coordinates are QPointF values; the model keeps them in half    *)
(* pixels (the integer 3 is 1.5 px), so that int() truncates something.    *)
(***************************************************************************)
EXTENDS Integers, Sequences, FiniteSets, TLC

VARIABLES
    pc,             \* where the session is: main, capture, tools, load, check, overlay, ocr, ocr_cleanup, ocr_done, exit
    exitCode,       \* -1 while running, else the process's exit status
    endReason,      \* history: how the session ended
    wayland,        \* config.wayland
    bgFile,         \* content of config.background_screenshot_path
    bgWriter,       \* history: whose attempt wrote bgFile
    toolIdx,        \* the for loop's position in tools
    lastExit,       \* history: what the last candidate of the chain did
    attemptLog,     \* history: the capture methods invoked, in order
    missing,        \* history: the tools which() did not find
    chainResult,    \* capture_with_command_line_tools: running, false, or the tool_name it returned True at
    pixmap,         \* background_pixmap: unset, null or valid
    overlayShown,   \* overlay.show() has run
    is_drawing,     \* EnhancedOverlay.is_drawing
    selection_made, \* EnhancedOverlay.selection_made
    path,           \* EnhancedOverlay.path: the elements' points
    panelVisible,   \* search_panel is shown
    cropExists,     \* config.screenshot_path exists
    cropRect,       \* the rectangle of the pixmap saved there
    cropSel,        \* history: the number of the selection that saved it
    selCount,       \* history: selections started in this session
    requested,      \* the SearchType of the handled request, or "none"
    ocrRan,         \* extract_text_multi_strategy was called
    consensus,      \* what it returned: text and confidence (sum over n)
    opened,         \* the kind of URL handed to webbrowser.open, or "none"
    openedText,     \* the text that URL carries
    uploaded,       \* upload_to_google_lens was started
    uploadedSel,    \* history: the selection whose crop it was handed
    cands,          \* the preprocessing candidate files on disk
    processed_paths,\* extract_text_multi_strategy's processed_paths
    ocrIdx,         \* its loop's position in processed_paths
    best,           \* its best_text, best_confidence
    strategyResults, \* history: each candidate's own result, in order
    ocrFailed       \* history: whether each candidate's OCR call raised

captureVars ==
    <<wayland, bgFile, bgWriter, toolIdx, lastExit, attemptLog, missing, chainResult, pixmap,
      overlayShown>>
overlayVars == <<is_drawing, selection_made, path, panelVisible>>
cropVars == <<cropExists, cropRect, cropSel>>
searchVars == <<requested, ocrRan, consensus, opened, openedText, uploaded, uploadedSel>>
ocrVars == <<cands, processed_paths, ocrIdx, best, strategyResults, ocrFailed>>
endVars == <<pc, exitCode, endReason>>
vars == <<endVars, captureVars, overlayVars, cropVars, selCount, searchVars, ocrVars>>

(***************************************************************************)
(* Bounds of the model                                                     *)
(***************************************************************************)
\* Elements a path may hold before the pointer is released.
MaxPath == 3
\* Selections started in one session.
MaxSelections == 2
\* Tokens in one OCR output.
MaxTokens == 2
\* The captured screen, in pixels.
ImgW == 2
ImgH == 2

(***************************************************************************)
(* Config                                                                  *)
(***************************************************************************)
min_confidence == 40
min_text_length == 3

(***************************************************************************)
(* The capture chain: capture_with_command_line_tools                      *)
(***************************************************************************)
\* The tools list, by tool_name, in the order the loop visits it.
Tools == <<"gnome-dbus", "gnome-screenshot", "grim", "spectacle", "scrot", "import">>
NumTools == Len(Tools)

\* How subprocess.run can end: exit status 0, CalledProcessError,
\* TimeoutExpired, or an OSError raised by the exec itself.
Exits == {"zero", "nonzero", "timeout", "oserror"}
\* What the tool did to output_path before it ended.
Writes == {"nothing", "empty", "garbage", "image"}

\* output_path.exists() and output_path.stat().st_size > 0
FileNonEmpty(f) == f \in {"garbage", "image"}
\* not QPixmap(path).isNull()
Decodable(f) == f = "image"

\* The mutant of NextOnFailure: the except clause leaves the loop.
NextOnFailureBreak(i) == NumTools + 1
\* except (CalledProcessError, TimeoutExpired): continue
NextOnFailure(i) == i + 1

FreshOverlay ==
    /\ is_drawing = FALSE
    /\ selection_made = FALSE
    /\ path = <<>>
    /\ panelVisible = FALSE
    /\ selCount = 0
    /\ cropSel = 0

FreshSearch ==
    /\ requested = "none"
    /\ ocrRan = FALSE
    /\ consensus = [text |-> <<>>, sum |-> 0, n |-> 1]
    /\ opened = "none"
    /\ openedText = <<>>
    /\ uploaded = FALSE
    /\ uploadedSel = 0

FreshOCR ==
    /\ cands = {}
    /\ processed_paths = <<>>
    /\ ocrIdx = 1
    /\ best = [text |-> <<>>, sum |-> 0, n |-> 1]
    /\ strategyResults = <<>>
    /\ ocrFailed = <<>>

\* The process starts; /tmp may hold an earlier session's files.
InitCapture ==
    /\ pc = "main"
    /\ exitCode = -1
    /\ endReason = "running"
    /\ wayland \in BOOLEAN
    /\ bgFile \in {"none", "image"}
    /\ bgWriter = (IF bgFile = "none" THEN "none" ELSE "stale")
    /\ toolIdx = 1
    /\ lastExit = "none"
    /\ attemptLog = <<>>
    /\ missing = {}
    /\ chainResult = "running"
    /\ pixmap = "unset"
    /\ overlayShown = FALSE
    /\ cropExists \in BOOLEAN
    /\ cropRect = (IF cropExists THEN <<0, 0, 1, 1>> ELSE <<0, 0, 0, 0>>)
    /\ FreshOverlay
    /\ FreshSearch
    /\ FreshOCR

Exit(code, why) ==
    /\ pc' = "exit"
    /\ exitCode' = code
    /\ endReason' = why

\* main: DependencyChecker.check() fails, sys.exit(1)
MainDepsMissing ==
    /\ pc = "main"
    /\ Exit(1, "deps")
    /\ UNCHANGED <<captureVars, overlayVars, cropVars, selCount, searchVars, ocrVars>>

\* main: "Clean up old screenshots"
MainCleanup ==
    /\ pc = "main"
    /\ cropExists' = FALSE
    /\ cropRect' = <<0, 0, 0, 0>>
    /\ bgFile' = "none"
    /\ bgWriter' = "none"
    /\ pc' = "capture"
    /\ UNCHANGED <<exitCode, endReason, wayland, missing, chainResult, toolIdx, lastExit, attemptLog, pixmap,
                   overlayShown, overlayVars, cropSel, selCount, searchVars, ocrVars>>

\* capture_screen_before_overlay: the mss branch, taken off Wayland only
CaptureMss ==
    /\ pc = "capture"
    /\ ~wayland
    /\ attemptLog' = Append(attemptLog, "mss")
    /\ \E ok \in BOOLEAN :
         IF ok
         THEN /\ bgFile' = "image"
              /\ bgWriter' = "mss"
              /\ pixmap' = "valid"
              /\ pc' = "check"
         ELSE /\ pc' = "tools"
              /\ UNCHANGED <<bgFile, bgWriter, pixmap>>
    /\ UNCHANGED <<exitCode, endReason, wayland, missing, chainResult, toolIdx, lastExit, overlayShown,
                   overlayVars, cropVars, selCount, searchVars, ocrVars>>

\* capture_screen_before_overlay: on Wayland mss is skipped
CaptureSkipMss ==
    /\ pc = "capture"
    /\ wayland
    /\ pc' = "tools"
    /\ UNCHANGED <<exitCode, endReason, captureVars, overlayVars, cropVars, selCount,
                   searchVars, ocrVars>>

\* The loop body when which(command[0]) finds nothing.
ToolMissing ==
    /\ pc = "tools"
    /\ toolIdx <= NumTools
    /\ lastExit' = "missing"
    /\ missing' = missing \cup {Tools[toolIdx]}
    /\ toolIdx' = toolIdx + 1
    /\ UNCHANGED <<endVars, wayland, chainResult, bgFile, bgWriter, attemptLog, pixmap, overlayShown,
                   overlayVars, cropVars, selCount, searchVars, ocrVars>>

\* The loop body when the executable is there: subprocess.run, then the
\* check of output_path.
ToolRun ==
    /\ pc = "tools"
    /\ toolIdx <= NumTools
    /\ attemptLog' = Append(attemptLog, Tools[toolIdx])
    /\ \E exit \in Exits, write \in Writes :
         /\ exit = "oserror" => write = "nothing"
         /\ lastExit' = exit
         /\ bgFile' = (IF write = "nothing" THEN bgFile ELSE write)
         /\ bgWriter' = (IF write = "nothing" THEN bgWriter ELSE Tools[toolIdx])
         /\ CASE exit = "zero" /\ FileNonEmpty(bgFile') ->
                   /\ chainResult' = Tools[toolIdx]
                   /\ pc' = "load"
                   /\ UNCHANGED <<toolIdx, exitCode, endReason>>
              [] exit = "zero" /\ ~FileNonEmpty(bgFile') ->
                   /\ toolIdx' = toolIdx + 1
                   /\ UNCHANGED <<endVars, chainResult>>
              [] exit \in {"nonzero", "timeout"} ->
                   /\ toolIdx' = NextOnFailure(toolIdx)
                   /\ UNCHANGED <<endVars, chainResult>>
              [] exit = "oserror" ->
                   /\ Exit(1, "crash")
                   /\ UNCHANGED <<toolIdx, chainResult>>
    /\ UNCHANGED <<wayland, missing, pixmap, overlayShown, overlayVars, cropVars, selCount,
                   searchVars, ocrVars>>

\* The loop is over: return False, and capture_screen_before_overlay
\* returns None.
ToolsExhausted ==
    /\ pc = "tools"
    /\ toolIdx > NumTools
    /\ chainResult' = "false"
    /\ pixmap' = "null"
    /\ pc' = "check"
    /\ UNCHANGED <<exitCode, endReason, wayland, missing, bgFile, bgWriter, toolIdx, lastExit,
                   attemptLog, overlayShown, overlayVars, cropVars, selCount, searchVars,
                   ocrVars>>

\* capture_screen_before_overlay after the chain returned True:
\* pm = QPixmap(path), returned unless pm.isNull()
LoadPixmap ==
    /\ pc = "load"
    /\ pixmap' = (IF Decodable(bgFile) THEN "valid" ELSE "null")
    /\ pc' = "check"
    /\ UNCHANGED <<exitCode, endReason, wayland, missing, chainResult, bgFile, bgWriter, toolIdx, lastExit,
                   attemptLog, overlayShown, overlayVars, cropVars, selCount, searchVars,
                   ocrVars>>

\* The mutant of MainCheck: the overlay is shown whatever the capture gave.
MainCheckNoExit ==
    /\ pc = "check"
    /\ overlayShown' = TRUE
    /\ pc' = "overlay"
    /\ UNCHANGED <<exitCode, endReason, wayland, missing, chainResult, bgFile, bgWriter, toolIdx, lastExit,
                   attemptLog, pixmap, overlayVars, cropVars, selCount, searchVars, ocrVars>>
\* main: sys.exit(1) on no pixmap, else EnhancedOverlay(...).show()
MainCheck ==
    /\ pc = "check"
    /\ IF pixmap = "null"
       THEN /\ Exit(1, "capture_failed")
            /\ UNCHANGED overlayShown
       ELSE /\ overlayShown' = TRUE
            /\ pc' = "overlay"
            /\ UNCHANGED <<exitCode, endReason>>
    /\ UNCHANGED <<wayland, missing, chainResult, bgFile, bgWriter, toolIdx, lastExit, attemptLog, pixmap,
                   overlayVars, cropVars, selCount, searchVars, ocrVars>>

NextCapture ==
    \/ MainDepsMissing
    \/ MainCleanup
    \/ CaptureMss
    \/ CaptureSkipMss
    \/ ToolMissing
    \/ ToolRun
    \/ ToolsExhausted
    \/ LoadPixmap
    \/ MainCheck

SpecCapture == InitCapture /\ [][NextCapture]_vars

(***************************************************************************)
(* OCRProcessor                                                            *)
(***************************************************************************)
Min(a, b) == IF a <= b THEN a ELSE b
Max(a, b) == IF a >= b THEN a ELSE b

RECURSIVE GCD(_, _)
GCD(a, b) == IF b = 0 THEN a ELSE GCD(b, a % b)

\* A float that is a quotient of two integers, kept as the reduced
\* fraction: equal floats are equal records.
Quotient(s, k) == LET g == GCD(s, k) IN [sum |-> s \div g, n |-> k \div g]

\* The files preprocess_image writes, in the order it writes them; the
\* image it is given is "capture" (config.screenshot_path).
CandidateFiles == <<"ocr_adaptive", "ocr_otsu", "ocr_enhanced">>
ImagePath == "capture"

\* How preprocess_image can go: cv2.imread returns None; an exception
\* before any file is written, after the first, after the second; or no
\* exception at all.
PreOutcomes == {"unreadable", "raise0", "raise1", "raise2", "ok"}

\* preprocess_image: the list it returns and the files it has written.
PreprocessImage(pre) ==
    CASE pre = "unreadable" -> [paths |-> <<ImagePath>>, written |-> {}]
      [] pre = "raise0" -> [paths |-> <<ImagePath>>, written |-> {}]
      [] pre = "raise1" -> [paths |-> <<ImagePath>>, written |-> {CandidateFiles[1]}]
      [] pre = "raise2" -> [paths |-> <<ImagePath>>,
                            written |-> {CandidateFiles[1], CandidateFiles[2]}]
      [] pre = "ok" -> [paths |-> CandidateFiles,
                        written |-> {CandidateFiles[i] : i \in 1..Len(CandidateFiles)}]

\* One entry of image_to_data's 'text' and 'conf' columns; a word is its
\* characters.
Tok(w, c) == [word |-> w, conf |-> c]
Tokens ==
    { Tok(<<" ">>, 95), Tok(<<"a", "b", "c">>, 0), Tok(<<"a", "b">>, 41),
      Tok(<<"a", "b", "c">>, 40), Tok(<<"x", "y", "z">>, 39) }

\* What pytesseract.image_to_data gives for one candidate: an exception,
\* or the tokens.
OcrFail == [ok |-> FALSE, tokens |-> <<>>]
OcrOutputs ==
    {OcrFail} \cup
    { [ok |-> TRUE, tokens |-> t] : t \in UNION { [1..k -> Tokens] : k \in 0..MaxTokens } }

\* word.strip() is not empty
StripNonEmpty(w) == \E i \in 1..Len(w) : w[i] # " "

\* if word.strip() and int(data['conf'][i]) > 0
Accepted(t) == StripNonEmpty(t.word) /\ t.conf > 0

RECURSIVE AcceptedOf(_)
AcceptedOf(ts) ==
    IF ts = <<>> THEN <<>>
    ELSE IF Accepted(Head(ts)) THEN <<Head(ts)>> \o AcceptedOf(Tail(ts))
    ELSE AcceptedOf(Tail(ts))

\* ' '.join(words)
RECURSIVE Join(_)
Join(ws) ==
    IF ws = <<>> THEN <<>>
    ELSE IF Len(ws) = 1 THEN ws[1].word
    ELSE ws[1].word \o <<" ">> \o Join(Tail(ws))

RECURSIVE SumConf(_)
SumConf(ws) == IF ws = <<>> THEN 0 ELSE ws[1].conf + SumConf(Tail(ws))

NoResult == [has |-> FALSE, text |-> <<>>, sum |-> 0, n |-> 1]

\* One candidate's text and avg_conf; has is "if words and confidences",
\* false also when the OCR call raised.
StrategyResult(out) ==
    IF ~out.ok THEN NoResult
    ELSE LET ws == AcceptedOf(out.tokens) IN
         IF ws = <<>> THEN NoResult
         ELSE LET q == Quotient(SumConf(ws), Len(ws)) IN
              [has |-> TRUE, text |-> Join(ws), sum |-> q.sum, n |-> q.n]

\* best_text, best_confidence = "", 0.0
EmptyBest == [text |-> <<>>, sum |-> 0, n |-> 1]

\* The mutant of UpdateBest: a raised OCR call throws the best away.
UpdateBestResetOnFailure(b, out) ==
    LET r == StrategyResult(out) IN
    IF ~out.ok THEN EmptyBest
    ELSE IF r.has /\ r.sum * b.n > b.sum * r.n
    THEN [text |-> r.text, sum |-> r.sum, n |-> r.n]
    ELSE b
\* The mutant of UpdateBest: a tie replaces the best.
UpdateBestOnTie(b, out) ==
    LET r == StrategyResult(out) IN
    IF r.has /\ r.sum * b.n >= b.sum * r.n
    THEN [text |-> r.text, sum |-> r.sum, n |-> r.n]
    ELSE b
\* if avg_conf > best_confidence: best_text, best_confidence = text, avg_conf
UpdateBest(b, out) ==
    LET r == StrategyResult(out) IN
    IF r.has /\ r.sum * b.n > b.sum * r.n
    THEN [text |-> r.text, sum |-> r.sum, n |-> r.n]
    ELSE b

\* The files on disk after the final loop: every processed path but the
\* image itself is unlinked.
AfterUnlink(files, paths) ==
    files \ { paths[i] : i \in { j \in 1..Len(paths) : paths[j] # ImagePath } }

\* The for loop over processed_paths, from position i on.
RECURSIVE FoldBest(_, _, _, _)
FoldBest(paths, outs, i, b) ==
    IF i > Len(paths) THEN b ELSE FoldBest(paths, outs, i + 1, UpdateBest(b, outs[i]))

\* extract_text_multi_strategy as one call: what it returns and the
\* candidate files it leaves.
ExtractTextMultiStrategy(files, pre, outs) ==
    LET prep == PreprocessImage(pre)
        b == FoldBest(prep.paths, outs, 1, EmptyBest)
    IN [text |-> b.text, sum |-> b.sum, n |-> b.n,
        files |-> AfterUnlink(files \cup prep.written, prep.paths)]

\* A call starts: the cropped selection is on disk.
InitOCR ==
    /\ pc = "ocr_start"
    /\ exitCode = -1
    /\ endReason = "running"
    /\ wayland = FALSE
    /\ bgFile = "image"
    /\ bgWriter = (IF wayland THEN Tools[1] ELSE "mss")
    /\ toolIdx = 1
    /\ lastExit = (IF wayland THEN "zero" ELSE "none")
    /\ attemptLog = (IF wayland THEN <<Tools[1]>> ELSE <<"mss">>)
    /\ missing = {}
    /\ chainResult = (IF wayland THEN Tools[1] ELSE "running")
    /\ pixmap = "valid"
    /\ overlayShown = TRUE
    /\ is_drawing = FALSE
    /\ selection_made = TRUE
    /\ path = <<<<0, 0>>, <<4, 0>>, <<0, 4>>, <<0, 0>>>>
    /\ panelVisible = TRUE
    /\ selCount = 1
    /\ cropExists = TRUE
    /\ cropRect = <<0, 0, 2, 2>>
    /\ cropSel = 1
    /\ requested = "text"
    /\ ocrRan = TRUE
    /\ consensus = EmptyBest
    /\ opened = "none"
    /\ openedText = <<>>
    /\ uploaded = FALSE
    /\ uploadedSel = 0
    /\ FreshOCR

\* processed_paths = OCRProcessor.preprocess_image(image_path)
OcrPreprocess ==
    /\ pc = "ocr_start"
    /\ \E pre \in PreOutcomes :
         LET prep == PreprocessImage(pre) IN
         /\ processed_paths' = prep.paths
         /\ cands' = cands \cup prep.written
    /\ best' = EmptyBest
    /\ ocrIdx' = 1
    /\ pc' = "ocr"
    /\ UNCHANGED <<exitCode, endReason, captureVars, overlayVars, cropVars, selCount,
                   searchVars, strategyResults, ocrFailed>>

\* One turn of the loop over processed_paths.
OcrCandidate ==
    /\ pc = "ocr"
    /\ ocrIdx <= Len(processed_paths)
    /\ \E out \in OcrOutputs :
         /\ best' = UpdateBest(best, out)
         /\ strategyResults' = Append(strategyResults, StrategyResult(out))
         /\ ocrFailed' = Append(ocrFailed, ~out.ok)
    /\ ocrIdx' = ocrIdx + 1
    /\ UNCHANGED <<endVars, captureVars, overlayVars, cropVars, selCount, searchVars,
                   cands, processed_paths>>

\* The unlink loop and the return.
OcrReturn ==
    /\ pc = "ocr"
    /\ ocrIdx > Len(processed_paths)
    /\ cands' = AfterUnlink(cands, processed_paths)
    /\ consensus' = best
    /\ pc' = "ocr_done"
    /\ UNCHANGED <<exitCode, endReason, captureVars, overlayVars, cropVars, selCount,
                   requested, ocrRan, opened, openedText, uploaded, uploadedSel,
                   processed_paths, ocrIdx, best, strategyResults, ocrFailed>>

NextOCR ==
    \/ OcrPreprocess
    \/ OcrCandidate
    \/ OcrReturn

SpecOCR == InitOCR /\ [][NextOCR]_vars

(***************************************************************************)
(* EnhancedOverlay                                                         *)
(***************************************************************************)
\* The pointer positions the events carry, in half pixels.
Pos == { <<0, 0>>, <<4, 0>>, <<0, 4>>, <<-2, 3>> }

SearchTypes == {"text", "image", "translate", "homework"}

\* QPainterPath.lineTo: a line to the current position adds no element.
LineTo(p, pt) == IF pt = p[Len(p)] THEN p ELSE Append(p, pt)
\* QPainterPath.elementCount
ElementCount(p) == Len(p)
\* QPainterPath.closeSubpath: a line back to the start, unless already there.
CloseSubpath(p) == IF p[Len(p)] = p[1] THEN p ELSE Append(p, p[1])

MinOf(S) == CHOOSE m \in S : \A e \in S : m <= e
MaxOf(S) == CHOOSE m \in S : \A e \in S : m >= e
\* QPainterPath.boundingRect().getRect(): x, y, width, height
BoundingRect(p) ==
    LET xs == { p[i][1] : i \in 1..Len(p) }
        ys == { p[i][2] : i \in 1..Len(p) }
    IN <<MinOf(xs), MinOf(ys), MaxOf(xs) - MinOf(xs), MaxOf(ys) - MinOf(ys)>>

\* int(val) of a float held in half pixels: truncation toward zero.
ToInt(v) == IF v >= 0 THEN v \div 2 ELSE -((-v) \div 2)

\* x, y, w, h = [max(0, int(val)) for val in rect.getRect()]
CaptureRect(rect) == [i \in 1..4 |-> Max(0, ToInt(rect[i]))]

\* QPixmap.copy(x, y, w, h): the part of the rectangle inside the pixmap.
CopyRect(r) ==
    <<r[1], r[2], Max(0, Min(r[1] + r[3], ImgW) - r[1]), Max(0, Min(r[2] + r[4], ImgH) - r[2])>>

\* The captured screen: pixel (x, y) of screenshot_pixmap.  No pixel is 0.
Screenshot(x, y) == 1 + x + ImgW * y

\* Pixel (i, j) of the file at config.screenshot_path: copy() copies the
\* rectangle's pixels as they are.
CropPixel(i, j) == Screenshot(cropRect[1] + i, cropRect[2] + j)

\* capture_selected_area: the crop is saved when w > 0 and h > 0 (and the
\* copy is not a null pixmap, which save() refuses).
CaptureSelectedArea(rect) ==
    LET r == CaptureRect(rect)
        c == CopyRect(r)
    IN IF r[3] > 0 /\ r[4] > 0 /\ c[3] > 0 /\ c[4] > 0
       THEN /\ cropExists' = TRUE
            /\ cropRect' = c
            /\ cropSel' = selCount
       ELSE UNCHANGED cropVars

\* quote_plus on the model's alphabet: a space becomes "+".
QuotePlus(t) == [i \in 1..Len(t) |-> IF t[i] = " " THEN "+" ELSE t[i]]

\* The mutant of TextAccepted: the length test is off by one.
TextAcceptedLongerOnly(r) ==
    /\ r.text # <<>>
    /\ r.sum > min_confidence * r.n
    /\ Len(r.text) > min_text_length
\* extract_text_from_selection: text and confidence > min_confidence and
\* len(text) >= min_text_length
TextAccepted(r) ==
    /\ r.text # <<>>
    /\ r.sum > min_confidence * r.n
    /\ Len(r.text) >= min_text_length

\* The overlay has just been shown: the capture succeeded, main() removed
\* any earlier crop.
Init ==
    /\ pc = "overlay"
    /\ exitCode = -1
    /\ endReason = "running"
    /\ wayland = FALSE
    /\ bgFile = "image"
    /\ bgWriter = (IF wayland THEN Tools[1] ELSE "mss")
    /\ toolIdx = 1
    /\ lastExit = (IF wayland THEN "zero" ELSE "none")
    /\ attemptLog = (IF wayland THEN <<Tools[1]>> ELSE <<"mss">>)
    /\ missing = {}
    /\ chainResult = (IF wayland THEN Tools[1] ELSE "running")
    /\ pixmap = "valid"
    /\ overlayShown = TRUE
    /\ cropExists = FALSE
    /\ cropRect = <<0, 0, 0, 0>>
    /\ FreshOverlay
    /\ FreshSearch
    /\ FreshOCR

\* mousePressEvent, left button
MousePress ==
    /\ pc = "overlay"
    /\ selCount < MaxSelections
    /\ \E pt \in Pos : path' = <<pt>>
    /\ is_drawing' = TRUE
    /\ selection_made' = FALSE
    /\ panelVisible' = FALSE
    /\ selCount' = selCount + 1
    /\ UNCHANGED <<endVars, captureVars, cropVars, searchVars, ocrVars>>

\* mouseMoveEvent
MouseMove ==
    /\ pc = "overlay"
    /\ is_drawing
    /\ ElementCount(path) < MaxPath
    /\ \E pt \in Pos : path' = LineTo(path, pt)
    /\ UNCHANGED <<endVars, captureVars, is_drawing, selection_made, panelVisible,
                   cropVars, selCount, searchVars, ocrVars>>

\* The mutant of MouseRelease: a simple click is not ignored.
MouseReleaseNoReturn ==
    /\ pc = "overlay"
    /\ is_drawing
    /\ is_drawing' = FALSE
    /\ IF ElementCount(path) < 3
       THEN Exit(0, "cancel")
       ELSE UNCHANGED endVars
    /\ selection_made' = TRUE
    /\ path' = CloseSubpath(path)
    /\ panelVisible' = TRUE
    /\ CaptureSelectedArea(BoundingRect(path'))
    /\ UNCHANGED <<captureVars, selCount, searchVars, ocrVars>>
\* mouseReleaseEvent, left button
MouseRelease ==
    /\ pc = "overlay"
    /\ is_drawing
    /\ is_drawing' = FALSE
    /\ IF ElementCount(path) < 3
       THEN /\ Exit(0, "cancel")
            /\ UNCHANGED <<selection_made, path, panelVisible, cropVars>>
       ELSE /\ selection_made' = TRUE
            /\ path' = CloseSubpath(path)
            /\ panelVisible' = TRUE
            /\ CaptureSelectedArea(BoundingRect(path'))
            /\ UNCHANGED endVars
    /\ UNCHANGED <<captureVars, selCount, searchVars, ocrVars>>

\* keyPressEvent, Key_Escape
KeyEscape ==
    /\ pc = "overlay"
    /\ Exit(0, "escape")
    /\ UNCHANGED <<captureVars, overlayVars, cropVars, selCount, searchVars, ocrVars>>

\* The OCR outputs a search request of the session is tried on: a failed
\* call, no accepted token, and accepted text below, at and above
\* min_confidence, shorter and longer than min_text_length.
SessionOcrOutputs ==
    { OcrFail,
      [ok |-> TRUE, tokens |-> <<Tok(<<"a", "b", "c">>, 0)>>],
      [ok |-> TRUE, tokens |-> <<Tok(<<"x", "y", "z">>, 39)>>],
      [ok |-> TRUE, tokens |-> <<Tok(<<"a", "b", "c">>, 40)>>],
      [ok |-> TRUE, tokens |-> <<Tok(<<"a", "b">>, 41)>>],
      [ok |-> TRUE, tokens |-> <<Tok(<<"a", "b", "c">>, 41)>>],
      [ok |-> TRUE, tokens |-> <<Tok(<<"a", "b">>, 41), Tok(<<"a", "b">>, 41)>>] }

\* perform_text_search and perform_homework_search call
\* perform_visual_search when no text comes back; perform_translate_search
\* prints a message.
FallsBackToVisual(type) == type \in {"text", "homework"}

\* handle_search_request(search_type), with the perform_* method it calls,
\* the OCR call inside it and QApplication.quit().
HandleSearchRequest(type) ==
    IF ~cropExists
    THEN UNCHANGED vars
    ELSE /\ requested' = type
         /\ Exit(0, "search")
         /\ IF type = "image"
            THEN /\ uploaded' = TRUE
                 /\ uploadedSel' = cropSel
                 /\ UNCHANGED <<ocrRan, consensus, opened, openedText, cands>>
            ELSE \E pre \in PreOutcomes :
                 \E outs \in [1..Len(PreprocessImage(pre).paths) -> SessionOcrOutputs] :
                   LET r == ExtractTextMultiStrategy(cands, pre, outs) IN
                   /\ ocrRan' = TRUE
                   /\ consensus' = [text |-> r.text, sum |-> r.sum, n |-> r.n]
                   /\ cands' = r.files
                   /\ IF TextAccepted(r)
                      THEN /\ opened' = type
                           /\ openedText' = QuotePlus(r.text)
                           /\ UNCHANGED <<uploaded, uploadedSel>>
                      ELSE /\ uploaded' = FallsBackToVisual(type)
                           /\ uploadedSel' = (IF FallsBackToVisual(type) THEN cropSel ELSE 0)
                           /\ UNCHANGED <<opened, openedText>>
         /\ UNCHANGED <<captureVars, overlayVars, cropVars, selCount, processed_paths,
                        ocrIdx, best, strategyResults, ocrFailed>>

\* keyPressEvent, Key_Space
KeySpace ==
    /\ pc = "overlay"
    /\ selection_made
    /\ HandleSearchRequest("text")

\* A button of the search panel is clicked: searchRequested is emitted.
PanelClick ==
    /\ pc = "overlay"
    /\ panelVisible
    /\ \E type \in SearchTypes : HandleSearchRequest(type)

Next ==
    \/ MousePress
    \/ MouseMove
    \/ MouseRelease
    \/ KeyEscape
    \/ KeySpace
    \/ PanelClick

Spec == Init /\ [][Next]_vars

(***************************************************************************)
(* The claims                                                              *)
(***************************************************************************)
Range(f) == { f[i] : i \in 1..Len(f) }
SessionEnded == pc = "exit"
\* A step of the capture chain's loop on candidate toolIdx.
ToolTurn == pc = "tools" /\ toolIdx <= NumTools
ToolIndex(name) == CHOOSE k \in 1..NumTools : Tools[k] = name

\* C1: a release of the pointer on a path of fewer than 3 elements ends the
\* session, and neither that step nor any later one saves a crop, runs the
\* OCR, opens a search or translate URL, or starts a visual-search upload:
\* an ended session takes no step at all.
C1_CancelShortCircuit ==
    [][ /\ ~SessionEnded
        /\ (is_drawing /\ ~is_drawing' /\ ElementCount(path) < 3) =>
             /\ SessionEnded'
             /\ endReason' = "cancel"
             /\ UNCHANGED <<cropVars, searchVars, cands>> ]_vars

\* A selection was completed and its crop saved, and then a simple click
\* ended the session.
C1_Witness ==
    /\ SessionEnded
    /\ endReason = "cancel"
    /\ ElementCount(path) < 3
    /\ selCount = 2
    /\ cropExists
    /\ cropSel = 1
    /\ ~ocrRan
    /\ ~uploaded
    /\ opened = "none"

\* C2 (state part): the tools are invoked in the order of the catalogue;
\* the chain returns True only at a candidate that has just exited zero
\* with output_path existing and not empty, and names that candidate; it
\* returns False only when every candidate was either not found or invoked.
C2_ChainState ==
    /\ \A i, j \in 1..Len(attemptLog) :
         (i < j /\ attemptLog[i] # "mss") =>
            ToolIndex(attemptLog[i]) < ToolIndex(attemptLog[j])
    /\ chainResult \notin {"running", "false"} =>
         /\ lastExit = "zero"
         /\ FileNonEmpty(bgFile)
         /\ chainResult = attemptLog[Len(attemptLog)]
         /\ chainResult = Tools[toolIdx]
    /\ chainResult = "false" =>
         \A k \in 1..NumTools : Tools[k] \in missing \/ Tools[k] \in Range(attemptLog)

\* C2 (step part): a candidate that is missing, exits non-zero or times
\* out leaves the chain running on the next candidate; a candidate that
\* exits zero with the file there ends the chain with True.
C2_ChainStep ==
    /\ (ToolTurn /\ lastExit' \in {"missing", "nonzero", "timeout"}) =>
         /\ pc' = "tools"
         /\ toolIdx' = toolIdx + 1
         /\ chainResult' = "running"
    /\ (ToolTurn /\ lastExit' = "zero" /\ FileNonEmpty(bgFile')) =>
         chainResult' = Tools[toolIdx]

\* C2: the capture fallback chain tries the candidates in catalogue order,
\* goes on to the next candidate after a missing executable, a non-zero
\* exit or a timeout, succeeds at the first candidate that exits zero and
\* leaves a non-empty output file, and fails only after every candidate.
C2_FallbackChain == []C2_ChainState /\ [][C2_ChainStep]_vars

\* Scenario A: the first tool is missing, the second succeeds, and the
\* capture is the second tool's.
C2_Witness ==
    /\ pc = "overlay"
    /\ wayland
    /\ missing = {Tools[1]}
    /\ attemptLog = <<Tools[2]>>
    /\ chainResult = Tools[2]
    /\ bgWriter = Tools[2]
    /\ pixmap = "valid"

\* C3: when every capture method has failed (capture_screen_before_overlay
\* returned None), the session ends with exit status 1 and nothing else:
\* the overlay is never shown, no selection, crop, OCR or search happens,
\* and no capture method was invoked twice.
C3_CaptureExhaustionFatal ==
    pixmap = "null" =>
        /\ pc \in {"check", "exit"}
        /\ SessionEnded => (exitCode = 1 /\ endReason = "capture_failed")
        /\ ~overlayShown
        /\ selCount = 0
        /\ ~cropExists
        /\ ~ocrRan
        /\ opened = "none"
        /\ ~uploaded
        /\ \A i, j \in 1..Len(attemptLog) : i # j => attemptLog[i] # attemptLog[j]

\* mss and all six tools were invoked, each once, and the session ended
\* with status 1.
C3_Witness ==
    /\ SessionEnded
    /\ exitCode = 1
    /\ endReason = "capture_failed"
    /\ chainResult = "false"
    /\ Len(attemptLog) = NumTools + 1
    /\ ~overlayShown

\* A search request was handled in a mode that asks for text.
TextRequestHandled ==
    SessionEnded /\ endReason = "search" /\ requested \in {"text", "translate", "homework"}

\* C4: for a request in a mode other than the visual search, an empty
\* consensus text or an average confidence below min_confidence ends in
\* the visual-search upload, never in no action or a text action.
C4_RoutingFallback ==
    (TextRequestHandled
        /\ (consensus.text = <<>> \/ consensus.sum < min_confidence * consensus.n)) =>
        (uploaded /\ opened = "none")

\* C5: for a request in a mode other than the visual search, an average
\* confidence of min_confidence or more with a non-empty text opens the
\* URL of the requested mode, carrying the consensus text.
C5_RoutingAcceptance ==
    (TextRequestHandled
        /\ consensus.text # <<>>
        /\ consensus.sum >= min_confidence * consensus.n) =>
        (opened = requested /\ openedText = QuotePlus(consensus.text) /\ ~uploaded)

\* C5 as amended: for a request in a mode other than the visual search, an
\* average confidence strictly above min_confidence with a text of at least
\* min_text_length characters opens the URL of the requested mode, carrying
\* the consensus text, and starts no upload.
C5_RoutingAcceptanceAmended ==
    (TextRequestHandled
        /\ Len(consensus.text) >= min_text_length
        /\ consensus.sum > min_confidence * consensus.n) =>
        (opened = requested /\ openedText = QuotePlus(consensus.text) /\ ~uploaded)

\* A translate request on a text of exactly min_text_length characters,
\* just above min_confidence: the translate URL is opened with it.
C5_Witness ==
    /\ TextRequestHandled
    /\ requested = "translate"
    /\ Len(consensus.text) = min_text_length
    /\ consensus.sum > min_confidence * consensus.n
    /\ opened = "translate"
    /\ openedText = consensus.text

\* a's average confidence is below b's.
AvgBelow(a, b) == a.sum * b.n < b.sum * a.n

\* C6: extract_text_multi_strategy returns the text and average confidence
\* of the earliest strategy whose average is the maximum of the
\* per-strategy averages, and ("", 0.0) when no strategy accepted a token.
C6_ConsensusSelection ==
    pc = "ocr_done" =>
        LET rs == strategyResults
            has == { i \in 1..Len(rs) : rs[i].has }
        IN /\ Len(rs) = Len(processed_paths)
           /\ has = {} => consensus = EmptyBest
           /\ has # {} =>
                \E i \in has :
                    /\ consensus = [text |-> rs[i].text, sum |-> rs[i].sum, n |-> rs[i].n]
                    /\ \A j \in has : ~AvgBelow(rs[i], rs[j])
                    /\ \A j \in has : j < i => AvgBelow(rs[j], rs[i])

\* Three candidates, the first without a token, the second and the third
\* tied at the maximum with different texts: the second is returned.
C6_Witness ==
    /\ pc = "ocr_done"
    /\ Len(strategyResults) = 3
    /\ ~strategyResults[1].has
    /\ strategyResults[2].has
    /\ strategyResults[3].has
    /\ strategyResults[2].text # strategyResults[3].text
    /\ ~AvgBelow(strategyResults[2], strategyResults[3])
    /\ ~AvgBelow(strategyResults[3], strategyResults[2])
    /\ consensus.text = strategyResults[2].text

\* C7: when the session has ended, the raw capture, the cropped selection
\* and every preprocessing candidate file are gone from disk.
C7_EndOfSessionCleanup ==
    SessionEnded => (bgFile = "none" /\ ~cropExists /\ cands = {})

\* The display server each tool is for, as the claim gives it.
Requirement(tool) ==
    CASE tool \in {"scrot", "import"} -> "x11"
      [] tool = "grim" -> "wayland"
      [] OTHER -> "any"

\* C8: the chain invokes only tools whose display-server requirement
\* matches the profile: on Wayland never scrot or import, on X11 never grim.
C8_DisplayServerFiltering ==
    \A i \in 1..Len(attemptLog) :
        attemptLog[i] # "mss" =>
            Requirement(attemptLog[i]) \in {"any", IF wayland THEN "wayland" ELSE "x11"}

\* The centre of pixel (x, y), in half pixels.
PixelCentre(x, y) == <<2 * x + 1, 2 * y + 1>>
Cross(a, b, c) == (b[1] - a[1]) * (c[2] - a[2]) - (c[1] - a[1]) * (b[2] - a[2])
OnSegment(a, b, c) ==
    /\ Cross(a, b, c) = 0
    /\ Min(a[1], b[1]) <= c[1] /\ c[1] <= Max(a[1], b[1])
    /\ Min(a[2], b[2]) <= c[2] /\ c[2] <= Max(a[2], b[2])
\* The winding number of the closed path p around c, from edge i on.
RECURSIVE Winding(_, _, _)
Winding(p, i, c) ==
    IF i >= Len(p) THEN 0
    ELSE LET a == p[i]
             b == p[i + 1]
             t == IF a[2] <= c[2] /\ b[2] > c[2] /\ Cross(a, b, c) > 0 THEN 1
                  ELSE IF a[2] > c[2] /\ b[2] <= c[2] /\ Cross(a, b, c) < 0 THEN -1
                  ELSE 0
         IN t + Winding(p, i + 1, c)
\* c is neither on the polygon's boundary nor inside it, under the
\* nonzero-winding rule and so under the even-odd rule too.
StrictlyOutside(p, c) ==
    /\ \A i \in 1..(Len(p) - 1) : ~OnSegment(p[i], p[i + 1], c)
    /\ Winding(p, 1, c) = 0

\* c lies in the path's bounding box.
InBoundingBox(p, c) ==
    LET b == BoundingRect(p) IN
    /\ b[1] <= c[1] /\ c[1] <= b[1] + b[3]
    /\ b[2] <= c[2] /\ c[2] <= b[2] + b[4]

\* C9: in the crop saved for the current selection, every pixel inside the
\* bounding box but strictly outside the drawn polygon is the empty marker
\* (0), not the pixel of the captured screen.
C9_MaskOutsidePath ==
    (pc = "overlay" /\ selection_made /\ cropExists /\ cropSel = selCount) =>
        \A i \in 0..(cropRect[3] - 1), j \in 0..(cropRect[4] - 1) :
            LET c == PixelCentre(cropRect[1] + i, cropRect[2] + j) IN
            (InBoundingBox(path, c) /\ StrictlyOutside(path, c)) => CropPixel(i, j) = 0

\* C10: when extract_text_multi_strategy has returned, none of the
\* candidate files it wrote is on disk, whatever failed in between.
C10_CandidateCleanup ==
    pc = "ocr_done" => cands = {}

\* C11: when one preprocessing strategy fails, only that strategy is
\* dropped: every candidate file that was written before the failure is in
\* the list handed to the OCR loop.
C11_PreprocessFailureLocal ==
    pc = "ocr" => \A f \in cands : f \in Range(processed_paths)

\* The best of the results of the candidates in S: the earliest one whose
\* average is the maximum, or ("", 0.0) when none of them has a token.
BestAmong(S) ==
    LET rs == strategyResults
        has == { i \in S : rs[i].has }
    IN IF has = {} THEN EmptyBest
       ELSE LET i == CHOOSE k \in has :
                        /\ \A j \in has : ~AvgBelow(rs[k], rs[j])
                        /\ \A j \in has : j < k => AvgBelow(rs[j], rs[k])
            IN [text |-> rs[i].text, sum |-> rs[i].sum, n |-> rs[i].n]

\* The candidates whose OCR call returned.
OcrSucceeded == { i \in 1..Len(ocrFailed) : ~ocrFailed[i] }

\* When the call has returned, every candidate was processed and the
\* consensus is the best of the successful ones; a failed one counts as
\* empty with confidence zero.
C12_Returned ==
    pc = "ocr_done" =>
        /\ Len(strategyResults) = Len(processed_paths)
        /\ Len(ocrFailed) = Len(processed_paths)
        /\ \A i \in 1..Len(ocrFailed) : ocrFailed[i] => strategyResults[i] = NoResult
        /\ consensus = BestAmong(OcrSucceeded)

\* The turn of the loop in which the OCR call raises: the best so far is
\* kept, the loop moves to the next candidate and the session goes on.
C12_FailedTurn ==
    (Len(ocrFailed') = Len(ocrFailed) + 1 /\ ocrFailed'[Len(ocrFailed')]) =>
        /\ best' = best
        /\ ocrIdx' = ocrIdx + 1
        /\ pc' = "ocr"
        /\ exitCode' = exitCode
        /\ endReason' = endReason

\* C12: a failed OCR call on one candidate contributes an empty,
\* zero-confidence result; the remaining candidates are still processed,
\* the consensus is the best result among the candidates whose OCR
\* succeeded, and neither the extraction nor the session is aborted.
C12_OcrFailureLocal == []C12_Returned /\ [][C12_FailedTurn]_vars

\* The first candidate has a result, the OCR call raises on the second,
\* and the third, processed after the failure, wins with a higher average.
C12_Witness ==
    /\ pc = "ocr_done"
    /\ ocrFailed = <<FALSE, TRUE, FALSE>>
    /\ strategyResults[1].has
    /\ strategyResults[3].has
    /\ AvgBelow(strategyResults[1], strategyResults[3])
    /\ consensus.text = strategyResults[3].text
    /\ consensus.text # strategyResults[1].text
    /\ endReason = "running"

\* The intersection of the path's bounding box with the image, in half
\* pixels: <<left, top, right, bottom>>.
BoxInImage(p) ==
    LET b == BoundingRect(p) IN
    <<Max(b[1], 0), Max(b[2], 0), Min(b[1] + b[3], 2 * ImgW), Min(b[2] + b[4], 2 * ImgH)>>

\* Pixel (x, y) has some area in the rectangle q / lies wholly in it.
PixelOverlaps(x, y, q) ==
    /\ 2 * x < q[3] /\ 2 * x + 2 > q[1]
    /\ 2 * y < q[4] /\ 2 * y + 2 > q[2]
PixelWithin(x, y, q) ==
    /\ q[1] <= 2 * x /\ 2 * x + 2 <= q[3]
    /\ q[2] <= 2 * y /\ 2 * y + 2 <= q[4]

\* The pixels of the screen that the saved crop holds.
CropPixels ==
    { <<cropRect[1] + i, cropRect[2] + j>> :
        i \in 0..(cropRect[3] - 1), j \in 0..(cropRect[4] - 1) }

\* C13: the crop saved for the current selection is the intersection of
\* the selection's bounding box with the image: it holds every pixel of the
\* image that lies in the box and no pixel that lies outside the box, to
\* the pixel grid.
C13_CropClamping ==
    (pc = "overlay" /\ selection_made /\ cropExists /\ cropSel = selCount) =>
        LET q == BoxInImage(path) IN
        /\ \A c \in CropPixels :
              /\ c[1] \in 0..(ImgW - 1) /\ c[2] \in 0..(ImgH - 1)
              /\ PixelOverlaps(c[1], c[2], q)
        /\ \A x \in 0..(ImgW - 1), y \in 0..(ImgH - 1) :
              PixelWithin(x, y, q) => <<x, y>> \in CropPixels

\* C14: the file whose existence and size the chain verified when it
\* accepted a tool's zero exit was written by that tool's own attempt, not
\* left behind by an earlier attempt of the chain.
C14_FreshOutputPath ==
    chainResult \in Range(Tools) =>
        /\ FileNonEmpty(bgFile)
        /\ bgWriter = chainResult

\* C15: the crop a handled search request ran OCR on or uploaded is the
\* crop of the most recently completed selection, never the file saved for
\* an earlier one.
C15_SearchUsesLatestSelection ==
    (SessionEnded /\ endReason = "search") =>
        /\ selection_made
        /\ cropSel = selCount
        /\ uploaded => uploadedSel = selCount

====
